---------------------------- MODULE Spec2Model ----------------------------
(***************************************************************************)
(* A model of lightning (src/__main__.py): a Javascript concatenator that  *)
(* indexes the source files of each build target, sorts them topologically *)
(* by their @require/@provide annotations, writes the concatenation, and   *)
(* rebuilds on filesystem notifications.                                   *)
(*                                                                         *)
(* The specifications share the actions of Target.sort:                    *)
(*   SpecSort      Target.sort alone, started on every index result within *)
(*                 the bounds (any texts, any discovery order);            *)
(*   SpecSortFair  the same under weak fairness of the steps of sort;      *)
(*   Spec          the whole program: the start-up loop of __main__, the   *)
(*                 observer delivering notifications to the handlers, and  *)
(*                 the files being changed while it runs.                  *)
(* Four more run one part of the program on its own, in finer detail:      *)
(*   SpecWrite     the write loop of Target.build on texts of characters;  *)
(*   SpecSearch    Source.search on texts of characters;                   *)
(*   SpecConf      index(path), the reader of the build index file;        *)
(*   SpecThreads   the main thread and the observer's thread, each with    *)
(*                 its own position.                                       *)
(***************************************************************************)
EXTENDS Integers, Sequences, FiniteSets, TLC

VARIABLES
    fs,        \* path -> [st, text]: the files on disk
    mtime,     \* path -> modification time of the file
    now,       \* the clock the modification times are taken from
    member,    \* target -> the paths its include/exclude patterns select
    sources,   \* target -> Target.sources
    correct,   \* the local list `correct` of the running Target.sort
    errsource, \* the path named by the cycle error that was raised
    indexed,   \* what the index pass before the running sort produced
    artifact,  \* target -> the content visible at Target.target
    prev,      \* the artifacts as they were when the running call began
    cache,     \* handler -> NaiveDeltaHandler.cache
    pc,        \* position of the one running thread of control
    ctx,       \* "sort" | "main" | "event": who runs the current call
    cur,       \* the handler (its target's number) whose method runs
    bt,        \* the target whose build()/sort() runs
    gtarget,   \* the module-level name `target` (loop variable of __main__)
    mi,        \* position of the start-up loop of __main__
    path,      \* the path of the notification being handled
    wi,        \* position of the write loop of Target.build
    error,     \* the exception that is propagating
    started,   \* observer.start() was called
    initBuilt, \* target -> number of builds completed during start-up
    search,    \* the running Source.search: its text, locals and position
    writer,    \* the write loop of Target.build on texts of characters
    conf,      \* the running index(path): the lines, locals and position
    threads    \* the main thread and the observer's thread, side by side

vars == <<fs, mtime, now, member, sources, correct, errsource, indexed,
          artifact, prev, cache, pc, ctx, cur, bt, gtarget, mi,
          path, wi, error, started, initBuilt, search, writer, conf,
          threads>>

\* the variables of the program as a whole
programVars == <<fs, mtime, now, member, sources, correct, errsource,
                 indexed, artifact, prev, cache, pc, ctx, cur, bt,
                 gtarget, mi, path, wi, error, started, initBuilt>>

\* the variables of the specifications that run one function on its own
sideVars == <<search, writer, conf, threads>>

\* a function that is not running in the specification at hand
Off == [pc |-> "off"]

SidesOff == search = Off /\ writer = Off /\ conf = Off /\ threads = Off

---------------------------------------------------------------------------
(* Bounds *)

\* the largest number of units a target holds in SpecSort
MaxUnits == 3

\* the largest number of texts SpecWrite writes, and their largest length
MaxWriteUnits == 2
MaxWriteText == 2

\* the largest length of a text SpecSearch searches
MaxText == 4

\* the largest number of lines of an index file in SpecConf, and the
\* largest number of characters of a line before its line break
MaxLines == 3
MaxLine == 2

\* the largest number of notifications waiting in SpecThreads
MaxQueue == 2

\* the number of targets the index file configures in Spec
NumTargets == 2

\* the last value of the clock: MaxTime - 1 changes of the files happen
MaxTime == 2

Symbols == {"x", "y"}

Targets == 1..NumTargets

\* the files under the watched directory in Spec
Paths == {1, 2}

---------------------------------------------------------------------------
(* Unit texts and Source *)

\* A text is what Source.search can find in it: whether HEAD occurs, and the
\* symbols after its REQUIRE and PROVIDE markers.
Texts == [head : BOOLEAN, require : SUBSET Symbols, provide : SUBSET Symbols]

Plain == [head |-> FALSE, require |-> {}, provide |-> {}]

\* Source.__init__ and Source.search: a text with HEAD returns before any
\* extraction, so its require and provide lists stay empty.
Source(p, text) ==
    [path    |-> p,
     code    |-> text,
     head    |-> text.head,
     require |-> IF text.head THEN {} ELSE text.require,
     provide |-> IF text.head THEN {} ELSE text.provide]

\* Python's None, as find returns it
None == [path |-> 0, code |-> Plain, head |-> FALSE, require |-> {}, provide |-> {}]

Range(s) == {s[i] : i \in 1..Len(s)}

PathsOf(s) == [i \in 1..Len(s) |-> s[i].path]

---------------------------------------------------------------------------
(* find and Target.sort *)

\* a find that returns the loop variable instead of None
findLast(require, srcs) ==
    IF \E i \in 1..Len(srcs) : require \in srcs[i].provide
    THEN srcs[CHOOSE i \in 1..Len(srcs) :
                 /\ require \in srcs[i].provide
                 /\ \A j \in 1..(i-1) : require \notin srcs[j].provide]
    ELSE IF srcs = <<>> THEN None ELSE srcs[Len(srcs)]

\* find(require, sources): the first source providing the requirement
find(require, srcs) ==
    IF \E i \in 1..Len(srcs) : require \in srcs[i].provide
    THEN srcs[CHOOSE i \in 1..Len(srcs) :
                 /\ require \in srcs[i].provide
                 /\ \A j \in 1..(i-1) : require \notin srcs[j].provide]
    ELSE None

\* list.pop() in place of list.remove(x)
removeLast(list, x) == SubSeq(list, 1, Len(list) - 1)

\* list.remove(x): drops the first element equal to x
remove(list, x) ==
    IF \E i \in 1..Len(list) : list[i] = x
    THEN LET i == CHOOSE i \in 1..Len(list) :
                      /\ list[i] = x
                      /\ \A j \in 1..(i-1) : list[j] # x
         IN  SubSeq(list, 1, i - 1) \o SubSeq(list, i + 1, Len(list))
    ELSE list

\* a source is held back only when all of its requirements are found
BlockedAll(source, srcs) ==
    /\ source.require # {}
    /\ \A r \in source.require : find(r, srcs) # None

\* the inner for/else of sort: the loop breaks at a requirement that find
\* locates among the remaining sources (the source itself included)
Blocked(source, srcs) ==
    \E r \in source.require : find(r, srcs) # None

\* The first loop of sort. A Python for loop over a list keeps an index: after
\* remove() the elements shift left and the element that follows the removed
\* one is never visited.
RECURSIVE sort_head_for(_, _, _)
sort_head_for(srcs, corr, i) ==
    IF i > Len(srcs) THEN [sources |-> srcs, correct |-> corr]
    ELSE LET source == srcs[i] IN
         IF source.head
         THEN sort_head_for(remove(srcs, source), Append(corr, source), i + 1)
         ELSE sort_head_for(srcs, corr, i + 1)

\* a pass with `cyclic = False` misplaced before the inner loop: the flag is
\* cleared by every source visited, ready or not
RECURSIVE sort_forUnflagged(_, _, _, _, _)
sort_forUnflagged(srcs, corr, i, cyclic, last) ==
    IF i > Len(srcs)
    THEN [sources |-> srcs, correct |-> corr, cyclic |-> cyclic, source |-> last]
    ELSE LET source == srcs[i] IN
         IF Blocked(source, srcs)
         THEN sort_forUnflagged(srcs, corr, i + 1, FALSE, source)
         ELSE sort_forUnflagged(remove(srcs, source), Append(corr, source),
                                i + 1, FALSE, source)

\* One pass of the while loop of sort: the for loop over self.sources, with
\* the same index semantics; `last` is the loop variable after the loop.
RECURSIVE sort_for(_, _, _, _, _)
sort_for(srcs, corr, i, cyclic, last) ==
    IF i > Len(srcs)
    THEN [sources |-> srcs, correct |-> corr, cyclic |-> cyclic, source |-> last]
    ELSE LET source == srcs[i] IN
         IF Blocked(source, srcs)
         THEN sort_for(srcs, corr, i + 1, cyclic, source)
         ELSE sort_for(remove(srcs, source), Append(corr, source), i + 1,
                       FALSE, source)

\* The while loop of sort run to its end: the order saved, or the error.
RECURSIVE sort_while(_, _)
sort_while(srcs, corr) ==
    IF srcs = <<>> THEN [ok |-> TRUE, order |-> corr, source |-> None]
    ELSE LET r == sort_for(srcs, corr, 1, TRUE, None) IN
         IF r.cyclic THEN [ok |-> FALSE, order |-> r.sources, source |-> r.source]
         ELSE sort_while(r.sources, r.correct)

\* Target.sort as a function of self.sources
sort(srcs) ==
    LET h == sort_head_for(srcs, <<>>, 1) IN sort_while(h.sources, h.correct)

engineVars == <<fs, mtime, now, member, artifact, prev, cache, ctx,
                cur, bt, gtarget, mi, path, wi, started, initBuilt, indexed,
                sideVars>>

\* sort, lines 148-154: correct = [] and the head loop
sort_heads ==
    /\ pc = "sort"
    /\ LET h == sort_head_for(sources[bt], <<>>, 1) IN
         /\ sources' = [sources EXCEPT ![bt] = h.sources]
         /\ correct' = h.correct
    /\ pc' = "sort_while"
    /\ UNCHANGED <<engineVars, errsource, error>>

\* sort, lines 157-166: a pass of the while loop that moved a source
sort_pass ==
    /\ pc = "sort_while"
    /\ sources[bt] # <<>>
    /\ LET r == sort_for(sources[bt], correct, 1, TRUE, None) IN
         /\ ~r.cyclic
         /\ sources' = [sources EXCEPT ![bt] = r.sources]
         /\ correct' = r.correct
    /\ UNCHANGED <<engineVars, errsource, error, pc>>

\* sort, lines 169-172: a pass that moved nothing raises, naming the loop
\* variable
sort_raise ==
    /\ pc = "sort_while"
    /\ sources[bt] # <<>>
    /\ LET r == sort_for(sources[bt], correct, 1, TRUE, None) IN
         /\ r.cyclic
         /\ errsource' = r.source.path
    /\ error' = "cycle"
    /\ pc' = "raised"
    /\ UNCHANGED <<engineVars, sources, correct>>

\* sort, line 175: self.sources = correct
sort_save ==
    /\ pc = "sort_while"
    /\ sources[bt] = <<>>
    /\ sources' = [sources EXCEPT ![bt] = correct]
    /\ correct' = <<>>
    /\ pc' = "sorted"
    /\ UNCHANGED <<engineVars, errsource, error>>

NextSort == sort_heads \/ sort_pass \/ sort_raise \/ sort_save

---------------------------------------------------------------------------
(* SpecSort: Target.sort on every index result within the bounds *)

\* The texts SpecSort draws from: every text without HEAD, and two with it
\* (one bare, one that also carries markers, which search ignores).
SortTexts ==
    {t \in Texts : t.head => \/ (t.require = {} /\ t.provide = {})
                             \/ (t.require = {"x"} /\ t.provide = {"y"})}

NoFile == [st |-> "absent", text |-> Plain]

\* the state in which Target.sort is entered, the units' texts drawn from T
InitSortOn(T) ==
    /\ \E n \in 0..MaxUnits : \E texts \in [1..n -> T] :
         /\ indexed = [k \in 1..n |-> Source(k, texts[k])]
         /\ sources = [t \in Targets |-> IF t = 1 THEN indexed ELSE <<>>]
    /\ correct = <<>>
    /\ errsource = 0
    /\ pc = "sort"
    /\ ctx = "sort"
    /\ bt = 1
    /\ cur = 1
    /\ gtarget = 1
    /\ fs = [p \in Paths |-> NoFile]
    /\ mtime = [p \in Paths |-> 0]
    /\ now = 1
    /\ member = [t \in Targets |-> {}]
    /\ artifact = [t \in Targets |-> <<>>]
    /\ prev = artifact
    /\ cache = [t \in Targets |-> <<>>]
    /\ mi = 1
    /\ path = 0
    /\ wi = 0
    /\ error = "none"
    /\ started = FALSE
    /\ initBuilt = [t \in Targets |-> 0]
    /\ SidesOff

InitSort == InitSortOn(SortTexts)

SpecSort == InitSort /\ [][NextSort]_vars

\* The texts of SpecSortFair: those of SortTexts that provide at most one
\* symbol (a behaviour graph small enough for TLC's liveness check).
FairSortTexts == {t \in SortTexts : Cardinality(t.provide) <= 1}

InitSortFair == InitSortOn(FairSortTexts)

\* sort is a loop of one thread: a step it can take is eventually taken
SpecSortFair == InitSortFair /\ [][NextSort]_vars /\ WF_vars(NextSort)

---------------------------------------------------------------------------
(* The files and Target.index *)

\* the texts the files of Spec are edited between: no annotation, and two
\* that need each other
NeedsXGivesY == [head |-> FALSE, require |-> {"x"}, provide |-> {"y"}]
NeedsYGivesX == [head |-> FALSE, require |-> {"y"}, provide |-> {"x"}]
EngineTexts == {Plain, NeedsXGivesY, NeedsYGivesX}

File(text) == [st |-> "ok", text |-> text]

\* glob.glob over the include patterns minus the exclude patterns: the
\* selected paths that exist
glob(t) == {p \in member[t] : fs[p].st # "absent"}

\* common(include), the subtree the handler of target t is scheduled on, as
\* the paths under it: a target whose one pattern names one file is watched
\* at that file, a target with a wildcard at the directory of its files
common(t) == IF Cardinality(member[t]) = 1 THEN member[t] ELSE Paths

\* the orders a Python set of paths can be iterated in
Orders(S) ==
    {o \in [1..Cardinality(S) -> S] :
        \A i, j \in 1..Cardinality(S) : o[i] = o[j] => i = j}

\* Target.index with the matched files taken in the order ord: sources is
\* cleared, then extended by one Source per file until an open() fails
index(ord) ==
    LET bad == {i \in 1..Len(ord) : fs[ord[i]].st # "ok"}
        n   == IF bad = {} THEN Len(ord)
               ELSE (CHOOSE i \in bad : \A j \in bad : i <= j) - 1
    IN  [ok      |-> bad = {},
         sources |-> [i \in 1..n |-> Source(ord[i], fs[ord[i]].text)]]

\* Target.includes(path)
includes(srcs, p) == \E i \in 1..Len(srcs) : srcs[i].path = p

\* dict.get(key, default) on a handler's cache
get(c, p, default) == IF p \in DOMAIN c THEN c[p] ELSE default

\* cache[path] = mtime
put(c, p, m) == [q \in DOMAIN c \cup {p} |-> IF q = p THEN m ELSE c[q]]

\* os.path.getmtime(path), with FileNotFoundError turned into -1
getmtime(p) == IF fs[p].st = "absent" THEN -1 ELSE mtime[p]

\* the debounce looking the path up with a default below the sentinel
DebouncedBelow(c, p, m) == get(c, p, -2) >= m

\* the debounce comparing with > in place of >=
DebouncedStrict(c, p, m) == get(c, p, 0) > m

\* on_any_event, line 261: the notification is dropped
Debounced(c, p, m) == get(c, p, 0) >= m

\* observer.start() moved into the body of the loop
LoopDoneEarly(i) == i > 1

\* the for loop of __main__ has gone through every target
LoopDone(i) == i > NumTargets

\* open(self.target, "w") truncates the file
open_w(art, t) == [art EXCEPT ![t] = <<>>]

\* file.write(source.read().rstrip() + "\n\n\n"): the unit's cached text
write(art, t, source) == [art EXCEPT ![t] = Append(@, source.code)]

\* what a completed write loop leaves in the artifact
Concatenated(srcs) == [i \in 1..Len(srcs) |-> srcs[i].code]

---------------------------------------------------------------------------
(* The start-up loop, the handlers and Target.build *)

sortVars == <<correct, errsource>>
fileVars == <<fs, mtime, now, member>>

\* The running call is over: its locals are gone (the history variables
\* indexed and prev go with them).
Returned ==
    /\ cur' = 0
    /\ bt' = 0
    /\ path' = 0
    /\ wi' = 0
    /\ correct' = <<>>
    /\ errsource' = 0
    /\ indexed' = <<>>
    /\ prev' = artifact

\* an exception raised by open() inside Target.index
RaiseRead ==
    /\ pc' = "raised"
    /\ error' = "read"

\* __main__, lines 277-278, and NaiveDeltaHandler.__init__, lines 240-242:
\* the loop binds the module-level name `target` and creates its handler
main_for ==
    /\ pc = "main"
    /\ ~LoopDone(mi)
    /\ gtarget' = mi
    /\ cur' = mi
    /\ cache' = [cache EXCEPT ![mi] = <<>>]
    /\ prev' = artifact
    /\ pc' = "handler_build"
    /\ UNCHANGED <<sideVars, fileVars, sortVars, sources, indexed, artifact,
                   ctx, bt, mi, path, wi, error, started, initBuilt>>

\* NaiveDeltaHandler.build, lines 247-248: self.target.index(), then
\* self.target.build()
handler_build ==
    /\ pc = "handler_build"
    /\ \E ord \in Orders(glob(cur)) :
         LET r == index(ord) IN
         /\ sources' = [sources EXCEPT ![cur] = r.sources]
         /\ IF r.ok
            THEN /\ pc' = "build"
                 /\ bt' = cur
                 /\ error' = error
            ELSE /\ RaiseRead
                 /\ bt' = bt
    /\ UNCHANGED <<sideVars, fileVars, sortVars, indexed, artifact, prev,
                   cache, ctx, cur, gtarget, mi, path, wi, started,
                   initBuilt>>

\* Target.build, line 180: self.index(); `art` is what the artifact holds
\* meanwhile
build_index_with(art) ==
    /\ pc = "build"
    /\ \E ord \in Orders(glob(bt)) :
         LET r == index(ord) IN
         /\ sources' = [sources EXCEPT ![bt] = r.sources]
         /\ IF r.ok
            THEN /\ pc' = "sort"
                 /\ indexed' = r.sources
                 /\ error' = error
            ELSE /\ RaiseRead
                 /\ indexed' = indexed
    /\ artifact' = art
    /\ UNCHANGED <<sideVars, fileVars, sortVars, prev, cache, ctx,
                   cur, bt, gtarget, mi, path, wi, started, initBuilt>>

\* a build that opens the artifact before it indexes and sorts
build_index_opened == build_index_with(open_w(artifact, bt))

\* Target.build, line 180: the artifact is not touched
build_index == build_index_with(artifact)

\* Target.build, line 183: after sort returned, open(self.target, "w")
build_open ==
    /\ pc = "sorted"
    /\ artifact' = open_w(artifact, bt)
    /\ wi' = 1
    /\ pc' = "write"
    /\ UNCHANGED <<sideVars, fileVars, sortVars, sources, indexed, prev,
                   cache, ctx, cur, bt, gtarget, mi, path, error,
                   started, initBuilt>>

\* Target.build, lines 184-185: one turn of the write loop
build_write ==
    /\ pc = "write"
    /\ wi <= Len(sources[bt])
    /\ artifact' = write(artifact, bt, sources[bt][wi])
    /\ wi' = wi + 1
    /\ UNCHANGED <<sideVars, fileVars, sortVars, sources, indexed, prev,
                   cache, pc, ctx, cur, bt, gtarget, mi, path, error,
                   started, initBuilt>>

\* Target.build, line 185: file.write raises (the disk is full, the file
\* went away): the with block closes the file, what was written stays
build_write_raise ==
    /\ pc = "write"
    /\ wi <= Len(sources[bt])
    /\ pc' = "raised"
    /\ error' = "write"
    /\ UNCHANGED <<sideVars, fileVars, sortVars, sources, indexed, artifact,
                   prev, cache, ctx, cur, bt, gtarget, mi, path, wi,
                   started, initBuilt>>

\* Target.build, line 186, and the return to the caller: to the loop of
\* __main__ (observer.schedule, line 279) or to the observer
build_return ==
    /\ pc = "write"
    /\ wi > Len(sources[bt])
    /\ Returned
    /\ IF ctx = "main"
       THEN /\ initBuilt' = [initBuilt EXCEPT ![bt] = @ + 1]
            /\ mi' = mi + 1
            /\ pc' = "main"
       ELSE /\ initBuilt' = initBuilt
            /\ mi' = mi
            /\ pc' = "idle"
    /\ UNCHANGED <<sideVars, fileVars, sources, artifact, cache, ctx, gtarget,
                   error, started>>

\* __main__, line 280: observer.start() after the loop
observer_start ==
    /\ pc = "main"
    /\ LoopDone(mi)
    /\ started' = TRUE
    /\ ctx' = "event"
    /\ pc' = "idle"
    /\ UNCHANGED <<sideVars, fileVars, sortVars, sources, indexed, artifact,
                   prev, cache, cur, bt, gtarget, mi, path, wi, error,
                   initBuilt>>

\* An exception leaves the running call: in __main__ it ends the process,
\* in a handler it ends the handling of the notification.
unwind ==
    /\ pc = "raised"
    /\ IF ctx = "main"
       THEN /\ pc' = "crashed"
            /\ UNCHANGED <<error, indexed, prev, wi, cur, bt, path,
                           sortVars>>
       ELSE /\ pc' = "idle"
            /\ error' = "none"
            /\ Returned
    /\ UNCHANGED <<sideVars, fileVars, sources, artifact, cache, ctx, gtarget,
                   mi, started, initBuilt>>

\* The observer thread, started and between two notifications, calls
\* on_any_event of handler h with a notification for a path p under the
\* directory the handler was scheduled on (line 279). Lines 250-256:
\* the handler reindexes its target and drops the notification of a path
\* that is not among the sources.
on_any_event_index(h, p) ==
    /\ pc = "idle"
    /\ started
    /\ \E ord \in Orders(glob(h)) :
         LET r == index(ord) IN
         /\ sources' = [sources EXCEPT ![h] = r.sources]
         /\ IF ~r.ok
            THEN /\ RaiseRead
                 /\ cur' = h
                 /\ path' = p
                 /\ UNCHANGED <<sortVars, indexed, prev, bt, wi>>
            ELSE /\ error' = error
                 /\ IF includes(r.sources, p)
                    THEN /\ pc' = "getmtime"
                         /\ cur' = h
                         /\ path' = p
                         /\ UNCHANGED <<sortVars, indexed, prev, bt,
                                        wi>>
                    ELSE /\ pc' = "idle"
                         /\ Returned
    /\ UNCHANGED <<sideVars, fileVars, artifact, cache, ctx, gtarget, mi,
                   started, initBuilt>>

\* on_any_event, line 264: target.build() names the module-level `target`
on_any_event_target == gtarget

\* on_any_event, lines 257-264: the modification time against the cache,
\* then the cache entry and the build
on_any_event_check ==
    /\ pc = "getmtime"
    /\ LET m == getmtime(path) IN
       IF Debounced(cache[cur], path, m)
       THEN /\ pc' = "idle"
            /\ cache' = cache
            /\ Returned
       ELSE /\ cache' = [cache EXCEPT ![cur] = put(@, path, m)]
            /\ bt' = on_any_event_target
            /\ pc' = "build"
            /\ UNCHANGED <<sortVars, indexed, prev, cur, path, wi>>
    /\ UNCHANGED <<sideVars, fileVars, sources, artifact, ctx, gtarget, mi,
                   error, started, initBuilt>>

---------------------------------------------------------------------------
(* The files change while the program runs *)

progVars == <<sources, correct, errsource, indexed, artifact, prev,
              cache, pc, ctx, cur, bt, gtarget, mi, path, wi, error, started,
              initBuilt, member, sideVars>>

\* a file is written: its text and its modification time change
edit(p, text) ==
    /\ pc # "crashed"
    /\ now < MaxTime
    /\ now' = now + 1
    /\ fs' = [fs EXCEPT ![p] = File(text)]
    /\ mtime' = [mtime EXCEPT ![p] = now']
    /\ UNCHANGED progVars

\* a file is deleted
delete(p) ==
    /\ pc # "crashed"
    /\ now < MaxTime
    /\ fs[p].st # "absent"
    /\ now' = now + 1
    /\ fs' = [fs EXCEPT ![p] = NoFile]
    /\ mtime' = [mtime EXCEPT ![p] = 0]
    /\ UNCHANGED progVars

\* a file loses its read permission: glob still matches it, open() raises
chmod(p) ==
    /\ pc # "crashed"
    /\ now < MaxTime
    /\ fs[p].st = "ok"
    /\ now' = now + 1
    /\ fs' = [fs EXCEPT ![p].st = "unreadable"]
    /\ UNCHANGED <<mtime, progVars>>

---------------------------------------------------------------------------
(* Spec: the whole program *)

Init ==
    /\ fs = [p \in Paths |-> File(IF p = 1 THEN NeedsXGivesY ELSE Plain)]
    /\ mtime = [p \in Paths |-> 1]
    /\ now = 1
    /\ member = [t \in Targets |-> IF t = NumTargets THEN Paths ELSE {1}]
    /\ sources = [t \in Targets |-> <<>>]
    /\ correct = <<>>
    /\ errsource = 0
    /\ indexed = <<>>
    /\ artifact = [t \in Targets |-> <<>>]
    /\ prev = artifact
    /\ cache = [t \in Targets |-> <<>>]
    /\ pc = "main"
    /\ ctx = "main"
    /\ cur = 0
    /\ bt = 0
    /\ gtarget = 0
    /\ mi = 1
    /\ path = 0
    /\ wi = 0
    /\ error = "none"
    /\ started = FALSE
    /\ initBuilt = [t \in Targets |-> 0]
    /\ SidesOff

Next ==
    \/ main_for
    \/ handler_build
    \/ build_index
    \/ sort_heads
    \/ sort_pass
    \/ sort_raise
    \/ sort_save
    \/ build_open
    \/ build_write
    \/ build_write_raise
    \/ build_return
    \/ observer_start
    \/ unwind
    \/ \E h \in Targets : \E p \in common(h) : on_any_event_index(h, p)
    \/ on_any_event_check
    \/ \E p \in Paths, text \in EngineTexts : edit(p, text)
    \/ \E p \in Paths : delete(p)
    \/ \E p \in Paths : chmod(p)

Spec == Init /\ [][Next]_vars

---------------------------------------------------------------------------
(* Texts as sequences of characters *)

\* the characters str.strip, lstrip and rstrip take off
Whitespace == {" ", "\n"}

\* str.rstrip()
RECURSIVE rstrip(_)
rstrip(s) ==
    IF s # <<>> /\ s[Len(s)] \in Whitespace
    THEN rstrip(SubSeq(s, 1, Len(s) - 1))
    ELSE s

\* str.lstrip()
RECURSIVE lstrip(_)
lstrip(s) ==
    IF s # <<>> /\ s[1] \in Whitespace THEN lstrip(Tail(s)) ELSE s

\* str.strip()
strip(s) == lstrip(rstrip(s))

\* every sequence of at most n elements of S
SeqsUpTo(S, n) == UNION {[1..k -> S] : k \in 0..n}

---------------------------------------------------------------------------
(* SpecWrite: the write loop of Target.build on texts of characters *)

\* the characters of the texts SpecWrite writes
WriteChars == {"a", " ", "\n"}

\* Target.build, line 185: what is written after each text
Separator == <<"\n", "\n", "\n">>

\* Target.build, line 183: open(self.target, "w") empties the file
writer_open ==
    /\ writer.pc = "open"
    /\ writer' = [writer EXCEPT !.pc = "write", !.file = <<>>, !.i = 1]
    /\ UNCHANGED <<programVars, search, conf, threads>>

\* Target.build, lines 184-185: file.write(source.read().rstrip() + "\n\n\n")
writer_write ==
    /\ writer.pc = "write"
    /\ writer.i <= Len(writer.texts)
    /\ writer' = [writer EXCEPT
                    !.file = @ \o rstrip(writer.texts[writer.i]) \o Separator,
                    !.i = @ + 1]
    /\ UNCHANGED <<programVars, search, conf, threads>>

\* Target.build, line 183: the with block is left and the file closed
writer_close ==
    /\ writer.pc = "write"
    /\ writer.i > Len(writer.texts)
    /\ writer' = [writer EXCEPT !.pc = "closed"]
    /\ UNCHANGED <<programVars, search, conf, threads>>

NextWrite == writer_open \/ writer_write \/ writer_close

\* every variable of the program at rest, as the specifications that run
\* one function on its own start
ProgramAtRest ==
    /\ sources = [t \in Targets |-> <<>>]
    /\ indexed = <<>>
    /\ correct = <<>>
    /\ errsource = 0
    /\ pc = "off"
    /\ ctx = "off"
    /\ bt = 0
    /\ cur = 0
    /\ gtarget = 0
    /\ fs = [p \in Paths |-> NoFile]
    /\ mtime = [p \in Paths |-> 0]
    /\ now = 1
    /\ member = [t \in Targets |-> {}]
    /\ artifact = [t \in Targets |-> <<>>]
    /\ prev = artifact
    /\ cache = [t \in Targets |-> <<>>]
    /\ mi = 1
    /\ path = 0
    /\ wi = 0
    /\ error = "none"
    /\ started = FALSE
    /\ initBuilt = [t \in Targets |-> 0]

\* Target.build about to write the texts of its sorted sources over an
\* artifact of an earlier build
InitWrite ==
    /\ ProgramAtRest
    /\ \E texts \in SeqsUpTo(SeqsUpTo(WriteChars, MaxWriteText), MaxWriteUnits) :
         writer = [pc |-> "open", texts |-> texts, i |-> 0,
                   file |-> <<"a">>]
    /\ search = Off
    /\ conf = Off
    /\ threads = Off

SpecWrite == InitWrite /\ [][NextWrite]_vars

---------------------------------------------------------------------------
(* SpecSearch: Source.search on texts of characters *)

\* lines 17-19: the markers; a marker is one element of a text
HEAD == "@head"
REQUIRE == "@require"
PROVIDE == "@provide"

\* len(target), line 60, counted in elements of a text
len(target) == 1

\* the elements of the texts SpecSearch searches
SearchChars == {HEAD, REQUIRE, PROVIDE, "a", ",", " ", "\n"}

\* The texts SpecSearch searches: those in which a marker is not directly
\* followed by another marker, so that the one character line 67 skips
\* after a marker is one element.
SearchTexts ==
    {s \in UNION {[1..k -> SearchChars] : k \in 0..MaxText} :
        \A i \in 1..(Len(s) - 1) :
            s[i] \in {HEAD, REQUIRE, PROVIDE} =>
                s[i + 1] \notin {HEAD, REQUIRE, PROVIDE}}

\* str.find(sub, start) for an element sub: the lowest 0-based position not
\* before start that holds sub, or -1
str_find(s, sub, start) ==
    LET at == {i \in start..(Len(s) - 1) : s[i + 1] = sub} IN
    IF at = {} THEN -1 ELSE CHOOSE i \in at : \A j \in at : i <= j

\* s[lo:hi] for lo >= 0: a negative hi counts from the end of s
slice(s, lo, hi) ==
    LET h0 == IF hi < 0 THEN Len(s) + hi ELSE hi
        h  == IF h0 > Len(s) THEN Len(s) ELSE h0
    IN  IF lo + 1 > h THEN <<>> ELSE SubSeq(s, lo + 1, h)

\* str.split(sep): always at least one piece
RECURSIVE split(_, _)
split(s, sep) ==
    LET i == str_find(s, sep, 0) IN
    IF i < 0 THEN <<s>>
    ELSE <<slice(s, 0, i)>> \o split(slice(s, i + 1, Len(s)), sep)

\* for target in (REQUIRE, PROVIDE), line 57
search_targets == <<REQUIRE, PROVIDE>>

\* lines 52-58: a text with HEAD in it is a head and nothing more is
\* searched; otherwise the loop over the targets begins
search_head ==
    /\ search.pc = "search"
    /\ IF str_find(search.code, HEAD, 0) > -1
       THEN search' = [search EXCEPT !.head = TRUE, !.pc = "done"]
       ELSE search' = [search EXCEPT !.pc = "find", !.ti = 1, !.start = 0,
                                     !.out = {}]
    /\ UNCHANGED <<programVars, writer, conf, threads>>

\* lines 63-65: the next occurrence of the marker, found
search_find ==
    /\ search.pc = "find"
    /\ LET found == str_find(search.code, search_targets[search.ti],
                             search.start) IN
         /\ found >= 0
         /\ search' = [search EXCEPT !.pc = "take", !.index = found]
    /\ UNCHANGED <<programVars, writer, conf, threads>>

\* lines 66-69: the tokens from past the marker to the line break
search_take ==
    /\ search.pc = "take"
    /\ LET newline == str_find(search.code, "\n", search.index)
           length == len(search_targets[search.ti])
           separated == split(slice(search.code, search.index + length + 1,
                                    newline), ",")
       IN  search' = [search EXCEPT
                        !.out = @ \cup {strip(separated[k]) :
                                        k \in 1..Len(separated)},
                        !.start = newline + 1,
                        !.pc = "find"]
    /\ UNCHANGED <<programVars, writer, conf, threads>>

\* lines 64-65 and 72-73: no further occurrence; the set becomes the
\* source's list and the loop goes on to the next target
search_store ==
    /\ search.pc = "find"
    /\ str_find(search.code, search_targets[search.ti], search.start) < 0
    /\ LET stored == IF search_targets[search.ti] = REQUIRE
                     THEN [search EXCEPT !.require = search.out]
                     ELSE [search EXCEPT !.provide = search.out]
       IN  IF search.ti < Len(search_targets)
           THEN search' = [stored EXCEPT !.ti = @ + 1, !.start = 0,
                                         !.out = {}]
           ELSE search' = [stored EXCEPT !.pc = "done"]
    /\ UNCHANGED <<programVars, writer, conf, threads>>

NextSearch == search_head \/ search_find \/ search_take \/ search_store

\* Source.__init__, lines 28-33, with the text read from the file
InitSearch ==
    /\ ProgramAtRest
    /\ \E code \in SearchTexts :
         search = [pc |-> "search", code |-> code, head |-> FALSE,
                   require |-> {}, provide |-> {}, ti |-> 0, start |-> 0,
                   index |-> 0, out |-> {}]
    /\ writer = Off
    /\ conf = Off
    /\ threads = Off

\* search is a loop of one thread: a step it can take is eventually taken
SpecSearch == InitSearch /\ [][NextSearch]_vars /\ WF_vars(NextSearch)

---------------------------------------------------------------------------
(* SpecConf: index(path), the reader of the build index file *)

\* the characters of the lines SpecConf reads, the line break aside
ConfChars == {" ", "#", ";", "+", "-", "t"}

\* the lines of a file as `for line in file` yields them: each ends with
\* its line break
ConfLines == {body \o <<"\n">> : body \in SeqsUpTo(ConfChars, MaxLine)}

\* target = None, line 200 (include and exclude are None along with it)
NoTarget == <<"None">>

\* sep(path), lines 189-192: os.sep is "/" where the program is run
sep(p) == p

\* Target(target, include, exclude), lines 110-117: common(include) calls
\* os.path.commonpath, which raises ValueError on None and on an empty list
\* (the include list of no target is None, kept here as the empty list)
TargetRaises(target, include) ==
    IF target = NoTarget \/ include = <<>> THEN "ValueError" ELSE "none"

Target(target, include, exclude) ==
    [target |-> target, include |-> include, exclude |-> exclude]

\* the line the loop is at, left-stripped (line 206)
conf_line == lstrip(conf.lines[conf.li])

conf_more == conf.pc = "read" /\ conf.li <= Len(conf.lines)

conf_raise(e) == conf' = [conf EXCEPT !.pc = "raised", !.error = e]

\* line 207: first = line[0] on a line that lstrip left empty
conf_first_raise ==
    /\ conf_more
    /\ conf_line = <<>>
    /\ conf_raise("IndexError")
    /\ UNCHANGED <<programVars, search, writer, threads>>

\* lines 210-211: a comment line
conf_continue ==
    /\ conf_more
    /\ conf_line # <<>>
    /\ conf_line[1] \in {"#", ";"}
    /\ conf' = [conf EXCEPT !.li = @ + 1]
    /\ UNCHANGED <<programVars, search, writer, threads>>

\* lines 212-213: a pattern line before any target line
conf_orphan_raise ==
    /\ conf_more
    /\ conf_line # <<>>
    /\ conf_line[1] \in {"+", "-"}
    /\ conf.target = NoTarget
    /\ conf_raise("SyntaxWarning")
    /\ UNCHANGED <<programVars, search, writer, threads>>

\* lines 214-215: an include pattern
conf_include ==
    /\ conf_more
    /\ conf_line # <<>>
    /\ conf_line[1] = "+"
    /\ conf.target # NoTarget
    /\ conf' = [conf EXCEPT
                  !.include = Append(@, sep(strip(Tail(conf_line)))),
                  !.li = @ + 1]
    /\ UNCHANGED <<programVars, search, writer, threads>>

\* lines 216-217: an exclude pattern
conf_exclude ==
    /\ conf_more
    /\ conf_line # <<>>
    /\ conf_line[1] = "-"
    /\ conf.target # NoTarget
    /\ conf' = [conf EXCEPT
                  !.exclude = Append(@, sep(strip(Tail(conf_line)))),
                  !.li = @ + 1]
    /\ UNCHANGED <<programVars, search, writer, threads>>

\* lines 220-225: any other line names a new target; the one before it is
\* appended when it has patterns
conf_target ==
    /\ conf_more
    /\ conf_line # <<>>
    /\ conf_line[1] \notin {"#", ";", "+", "-"}
    /\ LET flush == conf.target # NoTarget
                    /\ (conf.include # <<>> \/ conf.exclude # <<>>)
           e == TargetRaises(conf.target, conf.include)
       IN  IF flush /\ e # "none"
           THEN conf_raise(e)
           ELSE conf' = [conf EXCEPT
                           !.out = IF flush
                                   THEN Append(@, Target(conf.target,
                                                         conf.include,
                                                         conf.exclude))
                                   ELSE @,
                           !.target = strip(conf_line),
                           !.include = <<>>,
                           !.exclude = <<>>,
                           !.li = @ + 1]
    /\ UNCHANGED <<programVars, search, writer, threads>>

\* lines 228-231: after the last line the last target is appended and the
\* list returned
conf_return ==
    /\ conf.pc = "read"
    /\ conf.li > Len(conf.lines)
    /\ LET e == TargetRaises(conf.target, conf.include) IN
       IF e # "none"
       THEN conf_raise(e)
       ELSE conf' = [conf EXCEPT
                       !.out = Append(@, Target(conf.target, conf.include,
                                                conf.exclude)),
                       !.pc = "returned"]
    /\ UNCHANGED <<programVars, search, writer, threads>>

NextConf ==
    \/ conf_first_raise
    \/ conf_continue
    \/ conf_orphan_raise
    \/ conf_include
    \/ conf_exclude
    \/ conf_target
    \/ conf_return

\* index(path), lines 198-202, on a file of at most MaxLines lines
InitConf ==
    /\ ProgramAtRest
    /\ \E lines \in SeqsUpTo(ConfLines, MaxLines) :
         conf = [pc |-> "read", lines |-> lines, li |-> 1,
                 target |-> NoTarget, include |-> <<>>, exclude |-> <<>>,
                 out |-> <<>>, error |-> "none"]
    /\ search = Off
    /\ writer = Off
    /\ threads = Off

SpecConf == InitConf /\ [][NextConf]_vars

---------------------------------------------------------------------------
(* SpecThreads: the main thread and the observer's thread side by side *)

(* The program has two threads that run its code: the main thread, which   *)
(* runs __main__, and the thread of the one Observer created on line 276,  *)
(* which takes the notifications its emitters queued one at a time and     *)
(* calls on_any_event of the handler scheduled for the watch. Here each    *)
(* thread has its own position, and a rebuild is an interval between two   *)
(* steps, so that two rebuilds in progress at once is a state.             *)

\* the notifications the emitters can queue: a handler and a path
Notifications == Targets \X Paths

\* The observer's thread being started before the loop of __main__ in
\* place of after it
start_before_loop(i) == i = 1

\* __main__, line 280: observer.start() stands after the for loop
start_at(i) == LoopDone(i)

\* __main__, lines 277-278: the loop binds `target` and creates the
\* handler, whose __init__ builds the target
t_main_for ==
    /\ threads.main = "loop"
    /\ ~LoopDone(threads.mi)
    /\ threads' = [threads EXCEPT !.main = "build", !.target = threads.mi]
    /\ UNCHANGED <<programVars, search, writer, conf>>

\* lines 242-248 and 279: the build of the handler has returned and the
\* handler is scheduled on the observer
t_main_schedule ==
    /\ threads.main = "build"
    /\ threads' = [threads EXCEPT !.main = "loop", !.mi = @ + 1]
    /\ UNCHANGED <<programVars, search, writer, conf>>

\* line 280: observer.start() starts the observer's thread and the
\* emitters; after the loop the main thread goes on to sleep (line 283)
t_observer_start ==
    /\ threads.main = "loop"
    /\ threads.obs = "unstarted"
    /\ start_at(threads.mi)
    /\ threads' = [threads EXCEPT
                     !.obs = "wait",
                     !.main = IF LoopDone(threads.mi) THEN "sleep" ELSE @]
    /\ UNCHANGED <<programVars, search, writer, conf>>

\* an emitter queues a notification for a handler that is scheduled
t_queue(h, p) ==
    /\ threads.obs # "unstarted"
    /\ h < threads.mi
    /\ Len(threads.queue) < MaxQueue
    /\ threads' = [threads EXCEPT !.queue = Append(@, <<h, p>>)]
    /\ UNCHANGED <<programVars, search, writer, conf>>

\* the observer's thread takes the next notification and calls
\* on_any_event, lines 250-254: the handler reindexes its own target
t_on_any_event ==
    /\ threads.obs = "wait"
    /\ threads.queue # <<>>
    /\ threads' = [threads EXCEPT
                     !.obs = "index",
                     !.h = Head(threads.queue)[1],
                     !.p = Head(threads.queue)[2],
                     !.queue = Tail(@)]
    /\ UNCHANGED <<programVars, search, writer, conf>>

\* lines 255-262: the handler returns without a rebuild
t_return ==
    /\ threads.obs = "index"
    /\ threads' = [threads EXCEPT !.obs = "wait", !.h = 0, !.p = 0]
    /\ UNCHANGED <<programVars, search, writer, conf>>

\* lines 263-264: target.build() on the module-level `target`
t_build ==
    /\ threads.obs = "index"
    /\ threads' = [threads EXCEPT !.obs = "build", !.bt = threads.target]
    /\ UNCHANGED <<programVars, search, writer, conf>>

\* line 264: the rebuild has returned, and on_any_event with it
t_built ==
    /\ threads.obs = "build"
    /\ threads' = [threads EXCEPT !.obs = "wait", !.h = 0, !.p = 0,
                                  !.bt = 0]
    /\ UNCHANGED <<programVars, search, writer, conf>>

NextThreads ==
    \/ t_main_for
    \/ t_main_schedule
    \/ t_observer_start
    \/ \E n \in Notifications : t_queue(n[1], n[2])
    \/ t_on_any_event
    \/ t_return
    \/ t_build
    \/ t_built

\* __main__, line 276: the observer is created and not started
InitThreads ==
    /\ ProgramAtRest
    /\ threads = [main |-> "loop", mi |-> 1, target |-> 0,
                  obs |-> "unstarted", h |-> 0, p |-> 0, bt |-> 0,
                  queue |-> <<>>]
    /\ search = Off
    /\ writer = Off
    /\ conf = Off

SpecThreads == InitThreads /\ [][NextThreads]_vars

---------------------------------------------------------------------------
(* The require/provide graph of a list of units *)

\* u cannot be emitted while v remains: v provides a symbol u requires
DependsOn(u, v) == u.require \cap v.provide # {}

\* A finite graph has a cycle exactly when some non-empty set of its nodes
\* has, for each member, an edge into the set.
HasCycle(srcs) ==
    \E C \in SUBSET Range(srcs) :
        /\ C # {}
        /\ \A u \in C : \E v \in C : DependsOn(u, v)

\* the units with the requirements nobody provides taken out
Strip(srcs) ==
    [i \in 1..Len(srcs) |->
        [srcs[i] EXCEPT !.require =
            {r \in @ : \E j \in 1..Len(srcs) : r \in srcs[j].provide}]]

---------------------------------------------------------------------------
(* Claims about Target.sort, checked under SpecSort *)

\* C1: on an acyclic require/provide graph, whatever the discovery order,
\* sort does not raise, and in the order it saves every unit providing a
\* symbol comes before every unit requiring that symbol.
C1_ProvidersFirst ==
    ~HasCycle(indexed) =>
        /\ pc # "raised"
        /\ pc = "sorted" =>
             \A i, j \in 1..Len(sources[bt]) :
                 DependsOn(sources[bt][j], sources[bt][i]) => i < j

\* C1's case: three units sorted without error, the provider of a required
\* symbol discovered after the unit requiring it.
C1_Witness ==
    /\ pc = "sorted"
    /\ Len(indexed) = 3
    /\ ~HasCycle(indexed)
    /\ \E i, j \in 1..3 : i < j /\ DependsOn(indexed[i], indexed[j])
    /\ \A i, j \in 1..3 :
           DependsOn(sources[bt][j], sources[bt][i]) => i < j

\* C2: in the order sort saves, every head unit comes before every unit
\* that is not a head, wherever the heads were discovered.
C2_HeadsFirst ==
    pc = "sorted" =>
        \A i, j \in 1..Len(sources[bt]) :
            (sources[bt][i].head /\ ~sources[bt][j].head) => i < j

\* C3: when sort returns, self.sources is a permutation of the units of the
\* index pass before it: the same length, each unit exactly once.
C3_Permutation ==
    pc = "sorted" =>
        /\ Len(sources[bt]) = Len(indexed)
        /\ \A u \in Range(indexed) :
               Cardinality({i \in 1..Len(sources[bt]) : sources[bt][i] = u}) = 1

\* C3's case: three units, a head among them, returned in another order
\* than discovered.
C3_Witness ==
    /\ pc = "sorted"
    /\ Len(indexed) = 3
    /\ \E i \in 1..3 : indexed[i].head
    /\ sources[bt] # indexed
    /\ Range(sources[bt]) = Range(indexed)

\* C4: when the units hold a dependency cycle, sort never returns an order;
\* it ends by raising the cycle error, and the unit the error names is one
\* of the units left in self.sources, all of which are held back.
C4_CycleRaises ==
    /\ [](HasCycle(indexed) =>
            /\ pc # "sorted"
            /\ pc = "raised" =>
                 /\ errsource \in {u.path : u \in Range(sources[bt])}
                 /\ \A u \in Range(sources[bt]) : Blocked(u, sources[bt]))
    /\ (HasCycle(indexed) ~> (pc = "raised" /\ error = "cycle"))

\* C4's case: the error raised for two units that need each other (neither
\* providing what it requires itself), after another unit was resolved.
C4_Witness ==
    /\ pc = "raised"
    /\ error = "cycle"
    /\ Len(correct) > 0
    /\ \E u, v \in Range(sources[bt]) :
           /\ u # v
           /\ DependsOn(u, v) /\ DependsOn(v, u)
           /\ ~DependsOn(u, u) /\ ~DependsOn(v, v)
    /\ errsource \in {u.path : u \in Range(sources[bt])}

\* the units of the example: A requires y; B requires x and provides y
UnitA == Source(1, [head |-> FALSE, require |-> {"y"}, provide |-> {}])
UnitB == Source(2, [head |-> FALSE, require |-> {"x"}, provide |-> {"y"}])

\* C10: a required symbol that no unit provides changes nothing: sort ends
\* as it does on the same units with those requirements taken out (the same
\* order, or the same error), and for A(requires y), B(requires x,
\* provides y) it returns [B, A].
C10_UnprovidedIgnored ==
    LET expect == sort(Strip(indexed)) IN
    /\ pc = "sorted" =>
         /\ expect.ok
         /\ PathsOf(sources[bt]) = PathsOf(expect.order)
    /\ pc = "raised" =>
         /\ ~expect.ok
         /\ errsource = expect.source.path
    /\ indexed = <<UnitA, UnitB>> =>
         /\ pc # "raised"
         /\ pc = "sorted" => PathsOf(sources[bt]) = <<2, 1>>

\* C10's case: the example sorted, B first although x has no provider.
C10_Witness ==
    /\ pc = "sorted"
    /\ indexed = <<UnitA, UnitB>>
    /\ sources[bt] = <<UnitB, UnitA>>

\* The reference order of C15: the heads in discovery order, then pass after
\* pass the units no remaining unit holds back, each pass in discovery order.
RECURSIVE KahnPasses(_, _)
KahnPasses(remaining, out) ==
    LET ready == SelectSeq(remaining, LAMBDA u : ~Blocked(u, remaining))
        held  == SelectSeq(remaining, LAMBDA u : Blocked(u, remaining))
    IN  IF remaining = <<>> \/ ready = <<>> THEN out
        ELSE KahnPasses(held, out \o ready)

KahnOrder(srcs) ==
    KahnPasses(SelectSeq(srcs, LAMBDA u : ~u.head),
               SelectSeq(srcs, LAMBDA u : u.head))

\* C15: the order sort saves is the order of a Kahn topological sort with
\* the heads first and ties broken by discovery order (three independent
\* units A, B, C come out as [A, B, C]).
C15_SameAsKahn ==
    pc = "sorted" => sources[bt] = KahnOrder(indexed)

\* some units of srcs need each other in a circle of two or more
HasCycleAmongOthers(srcs) ==
    \E C \in SUBSET Range(srcs) :
        /\ C # {}
        /\ \A u \in C : \E v \in C : v # u /\ DependsOn(u, v)

\* what a unit of srcs both requires and provides, no other unit provides
SelfProvidedOnly(srcs) ==
    \A u \in Range(srcs) : \A s \in u.require \cap u.provide :
        \A v \in Range(srcs) : v # u => s \notin v.provide

\* C20: a unit requiring a symbol that it provides itself, and no other unit
\* provides, does not hold itself back: with no circle among distinct units,
\* sort raises no cycle error.
C20_SelfProvidedNotBlocking ==
    (SelfProvidedOnly(indexed) /\ ~HasCycleAmongOthers(indexed)) =>
        pc # "raised"

---------------------------------------------------------------------------
(* Claims about the handlers and Target.build, checked under Spec *)

\* the positions inside Target.build
BuildPcs == {"build", "sort", "sort_while", "sorted", "write"}

\* C5: when a handler goes on to rebuild after a notification, the cache
\* entry of the path is set and the target that is rebuilt, and whose
\* artifact is written, is the handler's own.
C5_RebuildsOwnTarget ==
    (ctx = "event" /\ pc \in BuildPcs) =>
        /\ path \in DOMAIN cache[cur]
        /\ bt = cur

\* C6: a notification for a path whose modification time equals its cache
\* entry (an entry exists only once a notification for the path triggered a
\* rebuild) returns from the handler with the cache and every artifact as
\* they were; the reindexing before the comparison writes neither.
C6_RedeliveryIgnored ==
    [][/\ pc = "idle" => (cache' = cache /\ artifact' = artifact)
       /\ (/\ pc = "getmtime"
           /\ pc' # "getmtime"
           /\ path \in DOMAIN cache[cur]
           /\ getmtime(path) = cache[cur][path])
          => (pc' = "idle" /\ cache' = cache /\ artifact' = artifact)]_vars

\* C6's case: a notification being handled for a path whose modification
\* time is the one cached when it last triggered a rebuild.
C6_Witness ==
    /\ pc = "getmtime"
    /\ path \in DOMAIN cache[cur]
    /\ getmtime(path) = cache[cur][path]
    /\ artifact[gtarget] # <<>>

\* C7: until indexing and sorting have both succeeded no artifact is
\* touched, so a rebuild that raises the cycle error or a read error leaves
\* every artifact as it was when the call began.
C7_AbortKeepsArtifact ==
    /\ (pc = "raised" /\ error \in {"cycle", "read"}) => artifact = prev
    /\ pc \in {"handler_build", "idle", "getmtime", "build", "sort",
               "sort_while", "sorted"} => artifact = prev

\* C7's case: a rebuild after a notification raised the cycle error while
\* the target's artifact held the two units of the build before.
C7_Witness ==
    /\ pc = "raised"
    /\ error = "cycle"
    /\ ctx = "event"
    /\ Len(artifact[bt]) = 2
    /\ artifact = prev

\* C8: during the write phase of a build, a failed write included, the
\* artifact holds either all of what it held before the build or all of the
\* new concatenation.
C8_AtomicWrite ==
    (pc = "write" \/ (pc = "raised" /\ error = "write")) =>
        \/ artifact[bt] = prev[bt]
        \/ artifact[bt] = Concatenated(sources[bt])

\* C9: no target is built more than once during start-up, and once the
\* observer is started, which is before any notification is handled, every
\* target has been built exactly once.
C9_StartupBuilds ==
    /\ \A t \in Targets : initBuilt[t] <= 1
    /\ started => \A t \in Targets : initBuilt[t] = 1
    /\ pc \in {"idle", "getmtime"} => started
    /\ ctx = "event" => started

\* C9's case: the first notification is being handled, every target built
\* once and its artifact written.
C9_Witness ==
    /\ pc = "getmtime"
    /\ started
    /\ \A t \in Targets : cache[t] = <<>>
    /\ \A t \in Targets : initBuilt[t] = 1 /\ artifact[t] # <<>>


\* C17, as stated: a notification handled for a member path whose file is
\* missing goes on to rebuild exactly when the handler's cache has no entry
\* for the path.
C17_MissingRebuildsIffUnseen ==
    [][(pc = "getmtime" /\ pc' # "getmtime" /\ fs[path].st = "absent")
        => ((pc' = "build") <=> (path \notin DOMAIN cache[cur]))]_vars

\* C17, amended: a notification handled for a member path whose file is
\* missing never goes on to rebuild, whether or not the cache has an entry
\* for the path: the handler returns with the cache and every artifact as
\* they were (the default 0 of the lookup is not below the sentinel -1).
C17_MissingNeverRebuilds ==
    [][(pc = "getmtime" /\ pc' # "getmtime" /\ fs[path].st = "absent")
        => (pc' = "idle" /\ cache' = cache /\ artifact' = artifact)]_vars

\* C17's case: the handler is about to compare the modification time of a
\* path that was among the sources when it reindexed, whose file has been
\* deleted since, and for which its cache has no entry.
C17_Witness ==
    /\ pc = "getmtime"
    /\ fs[path].st = "absent"
    /\ getmtime(path) = -1
    /\ path \notin DOMAIN cache[cur]

\* C18: when the rebuild a notification triggered aborts (cycle error, read
\* error or failed write inside Target.build), the cache entry of the path
\* goes back to what it was, so once the handler has returned the timestamp
\* of that notification (the one line 263 stored) is not dropped when it is
\* delivered again.
C18_CacheOnlyCompleted ==
    [][(pc = "raised" /\ ctx = "event" /\ bt # 0 /\ pc' = "idle")
        => ~Debounced(cache'[cur], path, cache[cur][path])]_vars

---------------------------------------------------------------------------
(* Claims about the written text, checked under SpecWrite *)

\* the texts of units, each right-trimmed, with glue between consecutive
\* ones
RECURSIVE Joined(_, _)
Joined(texts, glue) ==
    IF texts = <<>> THEN <<>>
    ELSE IF Len(texts) = 1 THEN rstrip(texts[1])
    ELSE rstrip(texts[1]) \o glue \o Joined(Tail(texts), glue)

\* C11: the artifact of a completed build is the right-trimmed texts of the
\* units in their order, joined by the separator of two blank lines: the
\* separator stands between consecutive units only, nothing follows the
\* last unit's trimmed text.
C11_JoinedBySeparator ==
    writer.pc = "closed" => writer.file = Joined(writer.texts, Separator)

---------------------------------------------------------------------------
(* Claims about Source.search, checked under SpecSearch *)

\* the 0-based positions of the element sub in s
Occurrences(s, sub) == {i \in 0..(Len(s) - 1) : s[i + 1] = sub}

\* what follows the marker at position i, up to the end of its line (the
\* end of the text when no line break follows)
RestOfLine(s, i) ==
    LET nl == str_find(s, "\n", i) IN
    slice(s, i + 1, IF nl < 0 THEN Len(s) ELSE nl)

\* the non-empty trimmed comma-separated tokens after the occurrences of a
\* marker
Tokens(s, marker) ==
    UNION {{strip(split(RestOfLine(s, i), ",")[k]) :
               k \in 1..Len(split(RestOfLine(s, i), ","))} :
           i \in Occurrences(s, marker)} \ {<<>>}

\* C12: for a text without the head marker, the sets search extracts are
\* exactly the non-empty, trimmed, comma-separated tokens after each
\* occurrence of the marker up to the end of its line; the empty string is
\* in neither set.
C12_ExactTokens ==
    (search.pc = "done" /\ ~search.head) =>
        /\ search.require = Tokens(search.code, REQUIRE)
        /\ search.provide = Tokens(search.code, PROVIDE)
        /\ <<>> \notin search.require \cup search.provide

\* C16: search terminates on every text, one whose last line holds a marker
\* and has no line break included.
C16_SearchTerminates == <>(search.pc = "done")

---------------------------------------------------------------------------
(* Claims about the reader of the index file, checked under SpecConf *)

\* what the grammar of the index file makes of a line
LineKind(line) ==
    LET l == lstrip(line) IN
    IF l = <<>> THEN "blank"
    ELSE IF l[1] \in {"#", ";"} THEN "comment"
    ELSE IF l[1] \in {"+", "-"} THEN "pattern"
    ELSE "target"

\* C13: a blank line, and a line starting with '#' or ';', is passed over
\* wherever it stands: the reader raises nothing and goes on to the next
\* line with the target, its pattern lists and the targets read so far as
\* they were.
C13_CommentsSkipped ==
    [][(/\ conf.pc = "read"
        /\ conf.li <= Len(conf.lines)
        /\ LineKind(conf.lines[conf.li]) \in {"blank", "comment"})
       => conf' = [conf EXCEPT !.li = @ + 1]]_vars

\* a pattern line stands before any target line
OrphanPattern(lines) ==
    \E i \in 1..Len(lines) :
        /\ LineKind(lines[i]) = "pattern"
        /\ \A j \in 1..(i - 1) : LineKind(lines[j]) # "target"

\* C14: reading a file in which a '+' or '-' line stands before any target
\* line returns no list of targets; it ends in the configuration error.
C14_OrphanIsConfigError ==
    OrphanPattern(conf.lines) =>
        /\ conf.pc # "returned"
        /\ conf.pc = "raised" => conf.error = "SyntaxWarning"

---------------------------------------------------------------------------
(* Claims about the threads, checked under SpecThreads *)

\* the target whose unit list and artifact the main thread is working on
\* (0: none)
MainUses == IF threads.main = "build" THEN threads.mi ELSE 0

\* the target whose unit list the observer's thread is reindexing, or whose
\* rebuild it runs (0: none)
ObserverUses ==
    IF threads.obs = "index" THEN threads.h
    ELSE IF threads.obs = "build" THEN threads.bt
    ELSE 0

\* C19: with every target watched by the one observer and notifications
\* queued for any handler in any order, the two threads never work on the
\* same target at once: no rebuild writes a target's artifact, and no
\* handler reindexes a target's unit list, while another rebuild of that
\* target is in progress. (The observer's thread runs only once the main
\* thread has left the loop for its sleep, and nothing is queued before.)
C19_RebuildsSerialized ==
    /\ ~(MainUses # 0 /\ ObserverUses # 0 /\ MainUses = ObserverUses)
    /\ threads.obs # "unstarted" => threads.main = "sleep"
    /\ threads.main = "build" => threads.queue = <<>>

\* C19's case: the observer's thread runs the rebuild a notification for
\* the first handler triggered, while notifications for both handlers wait
\* in the queue.
C19_Witness ==
    /\ threads.obs = "build"
    /\ threads.h = 1
    /\ threads.bt # 0
    /\ Len(threads.queue) = MaxQueue
    /\ \A t \in Targets : \E k \in 1..Len(threads.queue) :
           threads.queue[k][1] = t

=============================================================================
